---- MODULE Spec2Model ----
(***************************************************************************)
(* Model of src/hopkroft-karp.ts: the graph builder createBipartiteGraph   *)
(* and the HopcroftKarp engine (bfs layering, dfs augmentation, the phase  *)
(* loop of findMaximumMatching and findPerfectMatching).                   *)
(*                                                                         *)
(* Arrays are functions over 0..n-1 as in the source; an adjacency row is  *)
(* a sequence because the code iterates it in order.                       *)
(***************************************************************************)
EXTENDS Integers, Sequences, FiniteSets, TLC

VARIABLES input, graph, matchLeft, matchRight, dist, pc, op, u,
          matchingSize, before, returned, nAppends, built, phase, hk2

vars == <<input, graph, matchLeft, matchRight, dist, pc, op, u,
          matchingSize, before, returned, nAppends, built, phase, hk2>>

(* ---------------------------- bounds ----------------------------------- *)
MaxLeft == 3
MaxRight == 2
MaxEdges == 3
MaxAppends == 1
MaxCalls == 2
\* arguments tried on createBipartiteGraph alone
BuildMaxSize == 2
BuildMaxEdges == 2
\* entries a caller pushes onto a graph built without edges
MaxPushes == 4

(* ---------------------- program constants ------------------------------ *)
NIL == -1
\* JavaScript's Infinity: larger than every finite distance, and
\* Infinity + 1 = Infinity (see Plus1).
Infinity == 1000000

Plus1(d) == IF d = Infinity THEN Infinity ELSE d + 1

(* ------------------------- graph builder ------------------------------- *)
\* Array.from({ length: leftSize }, () => []) : a negative length gives [].
EmptyAdjacency(leftSize) == [i \in 0 .. (leftSize - 1) |-> <<>>]

\* EdgeInvalid with "v > rightSize" for "v >= rightSize"
EdgeInvalidOffByOne(leftSize, rightSize, e) ==
    e[1] < 0 \/ e[1] >= leftSize \/ e[2] < 0 \/ e[2] > rightSize

\* EdgeInvalid without the upper test on the left index
EdgeInvalidNoLeftUpper(leftSize, rightSize, e) ==
    e[1] < 0 \/ e[2] < 0 \/ e[2] >= rightSize

EdgeInvalid(leftSize, rightSize, e) ==
    e[1] < 0 \/ e[1] >= leftSize \/ e[2] < 0 \/ e[2] >= rightSize

\* AddEdges that throws on skipInvalidEdges = false without looking at
\* validateInput
RECURSIVE AddEdgesThrowUnvalidated(_, _, _, _, _, _, _)
AddEdgesThrowUnvalidated(leftSize, rightSize, edges, i, adj, validateInput, skipInvalidEdges) ==
    IF i > Len(edges)
    THEN [status |-> "ok", at |-> 0,
          graph |-> [leftSize |-> leftSize, rightSize |-> rightSize, edges |-> adj]]
    ELSE IF EdgeInvalid(leftSize, rightSize, edges[i])
         THEN IF ~skipInvalidEdges
              THEN [status |-> "InvalidEdge", at |-> i,
                    graph |-> [leftSize |-> leftSize, rightSize |-> rightSize,
                               edges |-> <<>>]]
              ELSE AddEdgesThrowUnvalidated(leftSize, rightSize, edges, i + 1, adj,
                                            validateInput, skipInvalidEdges)
         ELSE AddEdgesThrowUnvalidated(leftSize, rightSize, edges, i + 1,
                       [adj EXCEPT ![edges[i][1]] = Append(@, edges[i][2])],
                       validateInput, skipInvalidEdges)

RECURSIVE AddEdges(_, _, _, _, _, _, _)
AddEdges(leftSize, rightSize, edges, i, adj, validateInput, skipInvalidEdges) ==
    IF i > Len(edges)
    THEN [status |-> "ok", at |-> 0,
          graph |-> [leftSize |-> leftSize, rightSize |-> rightSize, edges |-> adj]]
    ELSE IF EdgeInvalid(leftSize, rightSize, edges[i])
         THEN IF validateInput /\ ~skipInvalidEdges
              THEN [status |-> "InvalidEdge", at |-> i,
                    graph |-> [leftSize |-> leftSize, rightSize |-> rightSize,
                               edges |-> <<>>]]
              ELSE AddEdges(leftSize, rightSize, edges, i + 1, adj,
                            validateInput, skipInvalidEdges)
         ELSE AddEdges(leftSize, rightSize, edges, i + 1,
                       [adj EXCEPT ![edges[i][1]] = Append(@, edges[i][2])],
                       validateInput, skipInvalidEdges)

\* createBipartiteGraph that validates leftSize only
createBipartiteGraphLeftOnly(leftSize, rightSize, edges, validateInput, skipInvalidEdges) ==
    IF validateInput /\ leftSize < 0
    THEN [status |-> "InvalidPartitionSize", at |-> 0,
          graph |-> [leftSize |-> leftSize, rightSize |-> rightSize, edges |-> <<>>]]
    ELSE AddEdges(leftSize, rightSize, edges, 1, EmptyAdjacency(leftSize),
                  validateInput, skipInvalidEdges)

createBipartiteGraph(leftSize, rightSize, edges, validateInput, skipInvalidEdges) ==
    IF validateInput /\ (leftSize < 0 \/ rightSize < 0)
    THEN [status |-> "InvalidPartitionSize", at |-> 0,
          graph |-> [leftSize |-> leftSize, rightSize |-> rightSize, edges |-> <<>>]]
    ELSE AddEdges(leftSize, rightSize, edges, 1, EmptyAdjacency(leftSize),
                  validateInput, skipInvalidEdges)

(* --------------------------- engine ------------------------------------ *)
\* constructor: match arrays filled with NIL, dist (leftSize + 1 slots) with 0.
NewEngine(g) ==
    [matchLeft  |-> [i \in 0 .. (g.leftSize - 1) |-> NIL],
     matchRight |-> [i \in 0 .. (g.rightSize - 1) |-> NIL],
     dist       |-> [i \in 0 .. g.leftSize |-> 0]]

\* the guard "v < 0 || v >= rightSize -> continue" of bfs and dfs
InRange(g, v) == ~(v < 0 \/ v >= g.rightSize)

\* NextOf that treats every right vertex as free
NextOfAlwaysSink(g, mR, v) == g.leftSize

\* matchedU === NIL ? leftSize : matchedU
NextOf(g, mR, v) == IF mR[v] = NIL THEN g.leftSize ELSE mR[v]

\* BfsInitDist without the else branch: matched left vertices keep layer 0
BfsInitDistAllZero(g, mL) ==
    [i \in 0 .. g.leftSize |-> IF i < g.leftSize THEN 0 ELSE Infinity]

\* bfs, "Initialize distances": free left vertices get 0 and are queued in
\* index order, matched ones and the sink slot get Infinity.
BfsInitDist(g, mL) ==
    [i \in 0 .. g.leftSize |->
        IF i < g.leftSize /\ mL[i] = NIL THEN 0 ELSE Infinity]

\* BfsInitQueue that queues only the first free left vertex
BfsInitQueueFirstOnly(g, mL) ==
    LET q == SelectSeq([k \in 1 .. g.leftSize |-> k - 1], LAMBDA x : mL[x] = NIL)
    IN  IF Len(q) = 0 THEN q ELSE <<Head(q)>>

BfsInitQueue(g, mL) ==
    SelectSeq([k \in 1 .. g.leftSize |-> k - 1], LAMBDA x : mL[x] = NIL)

\* BfsVisit that never queues the matched left vertex it has just layered
BfsVisitNoEnqueue(g, mR, bs, x, v) ==
    IF ~InRange(g, v)
    THEN bs
    ELSE LET n == NextOf(g, mR, v) IN
         IF bs.d[n] = Infinity
         THEN [d |-> [bs.d EXCEPT ![n] = Plus1(bs.d[x])], queue |-> bs.queue]
         ELSE bs

\* body of "for (const v of this.graph.edges[u])" in bfs; bs = [d, queue]
BfsVisit(g, mR, bs, x, v) ==
    IF ~InRange(g, v)
    THEN bs
    ELSE LET n == NextOf(g, mR, v) IN
         IF bs.d[n] = Infinity
         THEN [d     |-> [bs.d EXCEPT ![n] = Plus1(bs.d[x])],
               queue |-> IF mR[v] # NIL THEN Append(bs.queue, mR[v])
                                        ELSE bs.queue]
         ELSE bs

\* BfsScan that leaves the row at the first out-of-range entry (break for
\* continue)
RECURSIVE BfsScanBreak(_, _, _, _, _)
BfsScanBreak(g, mR, bs, x, i) ==
    IF i > Len(g.edges[x])
    THEN bs
    ELSE IF ~InRange(g, g.edges[x][i])
         THEN bs
         ELSE BfsScanBreak(g, mR, BfsVisit(g, mR, bs, x, g.edges[x][i]), x, i + 1)

RECURSIVE BfsScan(_, _, _, _, _)
BfsScan(g, mR, bs, x, i) ==
    IF i > Len(g.edges[x])
    THEN bs
    ELSE BfsScan(g, mR, BfsVisit(g, mR, bs, x, g.edges[x][i]), x, i + 1)

\* "while (queue.length > 0)": shift the head, expand it when it lies
\* strictly below the sink's layer.
RECURSIVE BfsLoop(_, _, _)
BfsLoop(g, mR, bs) ==
    IF Len(bs.queue) = 0
    THEN bs
    ELSE LET x    == Head(bs.queue)
             rest == [d |-> bs.d, queue |-> Tail(bs.queue)]
         IN  IF rest.d[x] < rest.d[g.leftSize]
             THEN BfsLoop(g, mR, BfsScan(g, mR, rest, x, 1))
             ELSE BfsLoop(g, mR, rest)

bfs(g, mL, mR) ==
    LET d == BfsLoop(g, mR, [d |-> BfsInitDist(g, mL),
                             queue |-> BfsInitQueue(g, mL)]).d
    IN  [dist |-> d, found |-> d[g.leftSize] # Infinity]

\* FlipEdge that forgets the left-hand side of the pair
FlipEdgeRightOnly(st, x, v) == [st EXCEPT !.matchRight[v] = x]

\* FlipEdge that forgets the right-hand side of the pair
FlipEdgeLeftOnly(st, x, v) == [st EXCEPT !.matchLeft[x] = v]

\* dfs, on success while unwinding: matchRight[v] = u; matchLeft[u] = v
FlipEdge(st, x, v) ==
    [st EXCEPT !.matchRight[v] = x, !.matchLeft[x] = v]

\* Prune that also releases the vertex it gives up on
PruneUnmatch(st, x) == [st EXCEPT !.dist[x] = Infinity, !.matchLeft[x] = NIL]

\* dfs, no neighbour yields a path: dist[u] = Infinity
Prune(st, x) == [st EXCEPT !.dist[x] = Infinity]

\* OnNextLayer without the "+ 1"
OnNextLayerSame(st, x, n) == st.dist[n] = st.dist[x]

\* dfs: "this.dist[next] === this.dist[u] + 1"
OnNextLayer(st, x, n) == st.dist[n] = Plus1(st.dist[x])

RECURSIVE dfs(_, _, _)
RECURSIVE DfsScan(_, _, _, _)
\* the for-of loop of dfs(x) from the i-th entry of edges[x] on
DfsScan(g, st, x, i) ==
    IF i > Len(g.edges[x])
    THEN [ok |-> FALSE, st |-> Prune(st, x)]
    ELSE LET v == g.edges[x][i] IN
         IF ~InRange(g, v)
         THEN DfsScan(g, st, x, i + 1)
         ELSE LET n == NextOf(g, st.matchRight, v) IN
              IF OnNextLayer(st, x, n)
              THEN LET r == dfs(g, st, n) IN
                   IF r.ok
                   THEN [ok |-> TRUE, st |-> FlipEdge(r.st, x, v)]
                   ELSE DfsScan(g, r.st, x, i + 1)
              ELSE DfsScan(g, st, x, i + 1)

dfs(g, st, x) ==
    IF x = g.leftSize
    THEN [ok |-> TRUE, st |-> st]
    ELSE DfsScan(g, st, x, 1)

\* ForBody that augments from the lowest free left vertex only, so a phase
\* stops short of a maximal set of shortest paths
ForBodyOnlyFirst(g, st, x, size) ==
    IF st.matchLeft[x] = NIL /\ (\A y \in 0 .. (x - 1) : st.matchLeft[y] # NIL)
    THEN LET r == dfs(g, st, x) IN
         [st |-> r.st, size |-> IF r.ok THEN size + 1 ELSE size]
    ELSE [st |-> st, size |-> size]

\* ForBody that counts every attempt, successful or not
ForBodyCountAttempts(g, st, x, size) ==
    IF st.matchLeft[x] = NIL
    THEN LET r == dfs(g, st, x) IN [st |-> r.st, size |-> size + 1]
    ELSE [st |-> st, size |-> size]

\* one iteration of "for (let u = 0; u < leftSize; u++)" of
\* findMaximumMatching: && short-circuits, so dfs runs only for a free u.
ForBody(g, st, x, size) ==
    IF st.matchLeft[x] = NIL
    THEN LET r == dfs(g, st, x) IN
         [st |-> r.st, size |-> IF r.ok THEN size + 1 ELSE size]
    ELSE [st |-> st, size |-> size]

\* the returned object: copies of the arrays and the call's counter
MakeMatching(st, size) ==
    [matchLeft |-> st.matchLeft, matchRight |-> st.matchRight, size |-> size]

\* findPerfectMatching's test on the matching it got
IsPerfect(g, m) == m.size = g.leftSize /\ m.size = g.rightSize

RECURSIVE ForLoop(_, _, _, _)
ForLoop(g, st, x, size) ==
    IF x < g.leftSize
    THEN LET r == ForBody(g, st, x, size) IN ForLoop(g, r.st, x + 1, r.size)
    ELSE [st |-> st, size |-> size]

RECURSIVE WhileLoop(_, _, _)
WhileLoop(g, st, size) ==
    LET b   == bfs(g, st.matchLeft, st.matchRight)
        st1 == [st EXCEPT !.dist = b.dist]
    IN  IF b.found
        THEN LET r == ForLoop(g, st1, 0, size) IN WhileLoop(g, r.st, r.size)
        ELSE [st |-> st1, size |-> size]

\* findMaximumMatching run to completion from engine state st
findMaximumMatching(g, st) ==
    LET r == WhileLoop(g, st, 0) IN
    [st |-> r.st, matching |-> MakeMatching(r.st, r.size)]

(* ------------------------ state machine -------------------------------- *)
\* edge lists handed to createBipartiteGraph: pairs over the largest
\* partitions, so that a smaller graph sees out-of-range pairs
Pairs == (0 .. (MaxLeft - 1)) \X (0 .. (MaxRight - 1))
EdgeLists == UNION {[1 .. n -> Pairs] : n \in 0 .. MaxEdges}

engine == [matchLeft |-> matchLeft, matchRight |-> matchRight, dist |-> dist]

Matched(m) == {i \in DOMAIN m : m[i] # NIL}

\* what the caller built from its arguments, before any later push
BuiltGraph ==
    createBipartiteGraph(input.leftSize, input.rightSize, input.edges, TRUE, TRUE).graph

\* a defensive copy taken at construction instead of the reference
thisGraphCopied == BuiltGraph

\* constructor: this.graph = graph keeps the caller's object, so the engine
\* always reads the live adjacency lists
thisGraph == graph

\* bookkeeping of the phase loop of the running call: successful layerings
\* so far, the counter when the current phase began, the sink layer of the
\* current and of the preceding successful layering
NoPhase == [n |-> 0, base |-> 0, sink |-> 0, prevSink |-> 0]

\* a second instance, new HopcroftKarp(graph), over the same graph object;
\* during remembers where the first instance stood when the second one's
\* running call began
SecondEngine(g) ==
    [matchLeft |-> NewEngine(g).matchLeft, matchRight |-> NewEngine(g).matchRight,
     dist |-> NewEngine(g).dist, pc |-> "idle", u |-> 0, matchingSize |-> 0,
     returned |-> <<>>, during |-> "idle"]

\* graph = createBipartiteGraph(...) with default options; hk = new HopcroftKarp(graph)
Init ==
    \E ls \in 0 .. MaxLeft, rs \in 0 .. MaxRight, el \in EdgeLists :
        LET b == createBipartiteGraph(ls, rs, el, TRUE, TRUE)
            e == NewEngine(b.graph)
        IN  /\ b.status = "ok"
            /\ input = [leftSize |-> ls, rightSize |-> rs, edges |-> el]
            /\ graph = b.graph
            /\ matchLeft = e.matchLeft
            /\ matchRight = e.matchRight
            /\ dist = e.dist
            /\ pc = "idle"
            /\ op = "none"
            /\ u = 0
            /\ matchingSize = 0
            /\ before = 0
            /\ returned = <<>>
            /\ nAppends = 0
            /\ built = b
            /\ phase = NoPhase
            /\ hk2 = SecondEngine(b.graph)

\* findMaximumMatching with the counter kept in a field that is never reset
CallFindMaximumMatchingKeepCount ==
    /\ pc = "idle"
    /\ Len(returned) < MaxCalls
    /\ pc' = "while"
    /\ op' = "max"
    /\ matchingSize' = matchingSize
    /\ before' = Cardinality(Matched(matchLeft))
    /\ phase' = NoPhase
    /\ UNCHANGED <<input, built, hk2, graph, matchLeft, matchRight, dist, u, returned, nAppends>>

\* entry of hk.findMaximumMatching(): let matchingSize = 0
CallFindMaximumMatching ==
    /\ pc = "idle"
    /\ Len(returned) < MaxCalls
    /\ pc' = "while"
    /\ op' = "max"
    /\ matchingSize' = 0
    /\ before' = Cardinality(Matched(matchLeft))
    /\ phase' = NoPhase
    /\ UNCHANGED <<input, built, hk2, graph, matchLeft, matchRight, dist, u, returned, nAppends>>

\* entry of hk.findPerfectMatching(), which starts by calling findMaximumMatching
CallFindPerfectMatching ==
    /\ pc = "idle"
    /\ Len(returned) < MaxCalls
    /\ pc' = "while"
    /\ op' = "perfect"
    /\ matchingSize' = 0
    /\ before' = Cardinality(Matched(matchLeft))
    /\ phase' = NoPhase
    /\ UNCHANGED <<input, built, hk2, graph, matchLeft, matchRight, dist, u, returned, nAppends>>

\* "while (this.bfs())": one layering phase
Layering ==
    /\ pc = "while"
    /\ LET b == bfs(thisGraph, matchLeft, matchRight) IN
        /\ dist' = b.dist
        /\ pc' = IF b.found THEN "for" ELSE "return"
        /\ phase' = IF b.found
                    THEN [n |-> phase.n + 1, base |-> matchingSize,
                          sink |-> b.dist[thisGraph.leftSize],
                          prevSink |-> phase.sink]
                    ELSE phase
    /\ u' = 0
    /\ UNCHANGED <<input, built, hk2, graph, matchLeft, matchRight, op, matchingSize,
                   before, returned, nAppends>>

\* one iteration of the for loop over the left vertices
Augment ==
    /\ pc = "for"
    /\ u < thisGraph.leftSize
    /\ LET r == ForBody(thisGraph, engine, u, matchingSize) IN
        /\ matchLeft' = r.st.matchLeft
        /\ matchRight' = r.st.matchRight
        /\ dist' = r.st.dist
        /\ matchingSize' = r.size
    /\ IF u + 1 < thisGraph.leftSize
       THEN u' = u + 1 /\ pc' = "for"
       ELSE u' = 0 /\ pc' = "while"
    /\ UNCHANGED <<input, built, hk2, graph, op, before, returned, nAppends, phase>>

\* the return statement of findMaximumMatching, followed for
\* findPerfectMatching by its size test
Return ==
    /\ pc = "return"
    /\ LET m == MakeMatching(engine, matchingSize) IN
        returned' = Append(returned,
            [op |-> op,
             isNull |-> (op = "perfect" /\ ~IsPerfect(thisGraph, m)),
             matching |-> m,
             edges |-> graph.edges,
             before |-> before])
    /\ pc' = "idle"
    /\ UNCHANGED <<input, built, hk2, graph, matchLeft, matchRight, dist, op, u,
                   matchingSize, before, nAppends, phase>>

\* the caller's graph.edges[x].push(v) between calls (the engine holds the
\* graph by reference); v may lie outside [0, rightSize)
AppendEdge ==
    /\ pc = "idle"
    /\ nAppends < MaxAppends
    /\ \E x \in 0 .. (graph.leftSize - 1), v \in -1 .. graph.rightSize :
        graph' = [graph EXCEPT !.edges[x] = Append(@, v)]
    /\ nAppends' = nAppends + 1
    /\ UNCHANGED <<input, built, hk2, matchLeft, matchRight, dist, pc, op, u,
                   matchingSize, before, returned, phase>>

(* ------- a graph built without edges and filled by the caller ---------- *)
\* graph = createBipartiteGraph(ls, rs, []); hk = new HopcroftKarp(graph)
InitPush ==
    /\ Init
    /\ input.edges = <<>>

\* graph.edges[x].push(v), several times, in range or not
PushEdge ==
    /\ pc = "idle"
    /\ nAppends < MaxPushes
    /\ \E x \in 0 .. (graph.leftSize - 1), v \in -1 .. graph.rightSize :
        graph' = [graph EXCEPT !.edges[x] = Append(@, v)]
    /\ nAppends' = nAppends + 1
    /\ UNCHANGED <<input, built, hk2, matchLeft, matchRight, dist, pc, op, u,
                   matchingSize, before, returned, phase>>

NextPush ==
    \/ PushEdge
    \/ CallFindMaximumMatching
    \/ Layering
    \/ Augment
    \/ Return

SpecPush == InitPush /\ [][NextPush]_vars

(* ------------- two engines over one graph object ---------------------- *)
\* dist declared static: the second instance reads the first one's array
engine2StaticDist ==
    [matchLeft |-> hk2.matchLeft, matchRight |-> hk2.matchRight, dist |-> dist]

\* matchLeft, matchRight and dist are instance fields: the second engine
\* reads its own arrays
engine2 ==
    [matchLeft |-> hk2.matchLeft, matchRight |-> hk2.matchRight, dist |-> hk2.dist]

\* entry of hk2.findMaximumMatching(): let matchingSize = 0
CallFindMaximumMatching2 ==
    /\ hk2.pc = "idle"
    /\ Len(hk2.returned) < MaxCalls
    /\ hk2' = [hk2 EXCEPT !.pc = "while", !.matchingSize = 0, !.during = pc]
    /\ UNCHANGED <<input, built, graph, matchLeft, matchRight, dist, pc, op, u,
                   matchingSize, before, returned, nAppends, phase>>

\* the second engine's while (this.bfs())
Layering2 ==
    /\ hk2.pc = "while"
    /\ LET b == bfs(thisGraph, engine2.matchLeft, engine2.matchRight) IN
        hk2' = [hk2 EXCEPT !.dist = b.dist,
                           !.pc = IF b.found THEN "for" ELSE "return",
                           !.u = 0]
    /\ UNCHANGED <<input, built, graph, matchLeft, matchRight, dist, pc, op, u,
                   matchingSize, before, returned, nAppends, phase>>

\* one iteration of the second engine's for loop
Augment2 ==
    /\ hk2.pc = "for"
    /\ hk2.u < thisGraph.leftSize
    /\ LET r == ForBody(thisGraph, engine2, hk2.u, hk2.matchingSize)
           last == ~(hk2.u + 1 < thisGraph.leftSize)
       IN  hk2' = [hk2 EXCEPT !.matchLeft = r.st.matchLeft,
                              !.matchRight = r.st.matchRight,
                              !.dist = r.st.dist,
                              !.matchingSize = r.size,
                              !.u = IF last THEN 0 ELSE hk2.u + 1,
                              !.pc = IF last THEN "while" ELSE "for"]
    /\ UNCHANGED <<input, built, graph, matchLeft, matchRight, dist, pc, op, u,
                   matchingSize, before, returned, nAppends, phase>>

\* the second engine's return statement
Return2 ==
    /\ hk2.pc = "return"
    /\ hk2' = [hk2 EXCEPT
                 !.returned = Append(@, [matching |-> MakeMatching(engine2, hk2.matchingSize),
                                         during |-> hk2.during]),
                 !.pc = "idle"]
    /\ UNCHANGED <<input, built, graph, matchLeft, matchRight, dist, pc, op, u,
                   matchingSize, before, returned, nAppends, phase>>

NextTwo ==
    \/ CallFindMaximumMatching
    \/ Layering
    \/ Augment
    \/ Return
    \/ CallFindMaximumMatching2
    \/ Layering2
    \/ Augment2
    \/ Return2

SpecTwo == Init /\ [][NextTwo]_vars

(* ------------- createBipartiteGraph on its own ------------------------- *)
BuildPairs == (-1 .. BuildMaxSize) \X (-1 .. BuildMaxSize)
BuildEdgeLists == UNION {[1 .. n -> BuildPairs] : n \in 0 .. BuildMaxEdges}

NoGraph == [leftSize |-> 0, rightSize |-> 0, edges |-> <<>>]

\* the caller holds its arguments and has not called yet; no engine exists
InitBuild ==
    \E ls \in -1 .. BuildMaxSize, rs \in -1 .. BuildMaxSize,
       el \in BuildEdgeLists, vi \in BOOLEAN, sk \in BOOLEAN :
        /\ input = [leftSize |-> ls, rightSize |-> rs, edges |-> el,
                    validateInput |-> vi, skipInvalidEdges |-> sk]
        /\ built = [status |-> "pending", at |-> 0, graph |-> NoGraph]
        /\ graph = NoGraph
        /\ matchLeft = <<>>
        /\ matchRight = <<>>
        /\ dist = <<>>
        /\ pc = "args"
        /\ op = "none"
        /\ u = 0
        /\ matchingSize = 0
        /\ before = 0
        /\ returned = <<>>
        /\ nAppends = 0
        /\ phase = NoPhase
        /\ hk2 = SecondEngine(NoGraph)

\* graph = createBipartiteGraph(leftSize, rightSize, edges, options): the
\* call returns a graph or throws a BipartiteGraphError
Build ==
    /\ pc = "args"
    /\ LET b == createBipartiteGraph(input.leftSize, input.rightSize, input.edges,
                                     input.validateInput, input.skipInvalidEdges)
       IN  /\ built' = b
           /\ pc' = IF b.status = "ok" THEN "built" ELSE "thrown"
           /\ graph' = IF b.status = "ok" THEN b.graph ELSE graph
    /\ UNCHANGED <<input, hk2, matchLeft, matchRight, dist, op, u, matchingSize,
                   before, returned, nAppends, phase>>

NextBuild == Build

SpecBuild == InitBuild /\ [][NextBuild]_vars

Next ==
    \/ CallFindMaximumMatching
    \/ CallFindPerfectMatching
    \/ Layering
    \/ Augment
    \/ Return
    \/ AppendEdge

Spec == Init /\ [][Next]_vars

TypeOK ==
    /\ pc \in {"idle", "while", "for", "return"}
    /\ op \in {"none", "max", "perfect"}
    /\ DOMAIN matchLeft = 0 .. (graph.leftSize - 1)
    /\ DOMAIN matchRight = 0 .. (graph.rightSize - 1)
    /\ DOMAIN dist = 0 .. graph.leftSize

(* ------------------- notions the properties use ------------------------ *)
\* the graph as it stood when the i-th call returned
GraphAt(i) == [graph EXCEPT !.edges = returned[i].edges]

\* right vertices listed in row x that lie in [0, rightSize)
Adj(g, x) ==
    {v \in 0 .. (g.rightSize - 1) :
        \E i \in 1 .. Len(g.edges[x]) : g.edges[x][i] = v}

EdgeSet(g) == {e \in (0 .. (g.leftSize - 1)) \X (0 .. (g.rightSize - 1)) :
                  e[2] \in Adj(g, e[1])}

IsMatchingSet(M) ==
    \A a \in M, b \in M : a # b => (a[1] # b[1] /\ a[2] # b[2])

\* maximum matching cardinality, by enumeration of the edge subsets
MaxCard(g) ==
    LET sizes == {Cardinality(M) : M \in {S \in SUBSET EdgeSet(g) : IsMatchingSet(S)}}
    IN  CHOOSE n \in sizes : \A k \in sizes : k <= n

AllInRange(g) ==
    \A x \in DOMAIN g.edges : \A i \in 1 .. Len(g.edges[x]) :
        g.edges[x][i] \in 0 .. (g.rightSize - 1)

\* left vertices reachable from the set R along alternating paths
RECURSIVE AltReach(_, _, _)
AltReach(g, mR, R) ==
    LET R2 == R \cup {mR[v] : v \in {w \in UNION {Adj(g, x) : x \in R} : mR[w] # NIL}}
    IN  IF R2 = R THEN R ELSE AltReach(g, mR, R2)

HasAugmentingPath(g, mL, mR) ==
    \E x \in AltReach(g, mR, {y \in DOMAIN mL : mL[y] = NIL}) :
        \E v \in Adj(g, x) : mR[v] = NIL

Calls == 1 .. Len(returned)

\* an edge list without its repeated pairs, first occurrences kept in order
RECURSIVE Dedup(_)
Dedup(el) ==
    IF Len(el) = 0
    THEN el
    ELSE LET front == Dedup(SubSeq(el, 1, Len(el) - 1))
             last  == el[Len(el)]
         IN  IF \E k \in 1 .. Len(front) : front[k] = last
             THEN front
             ELSE Append(front, last)

DedupGraph ==
    createBipartiteGraph(input.leftSize, input.rightSize, Dedup(input.edges),
                         TRUE, TRUE).graph

\* size a fresh engine over g reports from its first findMaximumMatching
FreshSize(g) == findMaximumMatching(g, NewEngine(g)).matching.size
(* ----------------------------- claims ---------------------------------- *)
\* C1: the first findMaximumMatching call on a fresh engine over a graph
\* exactly as createBipartiteGraph produced it returns a size equal to the
\* maximum matching cardinality of that graph.
C1_FirstCallIsMaximum ==
    (Len(returned) >= 1 /\ returned[1].op = "max"
        /\ returned[1].edges = BuiltGraph.edges)
    => returned[1].matching.size = MaxCard(BuiltGraph)

\* a first call that needed a second phase: left 0 first took right 0 and
\* was moved to right 1 so that left 1 could take right 0
C1_Witness ==
    /\ Len(returned) >= 1 /\ returned[1].op = "max"
    /\ input = [leftSize |-> 2, rightSize |-> 2,
                edges |-> << <<0, 0>>, <<0, 1>>, <<1, 0>> >>]
    /\ returned[1].edges = BuiltGraph.edges
    /\ returned[1].matching.size = 2
    /\ returned[1].matching.matchLeft[0] = 1

\* C2: in every Matching returned by findMaximumMatching, a matched left
\* vertex u with matchLeft[u] = v has v in [0, rightSize), matchRight[v] = u
\* and v among the entries of edges[u].
C2_MatchedPairsValid ==
    \A i \in Calls :
        LET m == returned[i].matching IN
        \A x \in DOMAIN m.matchLeft :
            m.matchLeft[x] # NIL =>
                /\ m.matchLeft[x] \in 0 .. (graph.rightSize - 1)
                /\ m.matchRight[m.matchLeft[x]] = x
                /\ m.matchLeft[x] \in Adj(GraphAt(i), x)

\* a returned matching with two pairs, over a graph that also holds an
\* out-of-range entry
C2_Witness ==
    \E i \in Calls :
        /\ Cardinality(Matched(returned[i].matching.matchLeft)) >= 2
        /\ ~AllInRange(GraphAt(i))

\* C3: in every Matching returned by any call (first or later) of
\* findMaximumMatching or findPerfectMatching, size equals the number of
\* non-sentinel entries of matchLeft and of matchRight.
C3_SizeCountsMatchedEntries ==
    \A i \in Calls :
        ~returned[i].isNull =>
            LET m == returned[i].matching IN
            /\ m.size = Cardinality(Matched(m.matchLeft))
            /\ m.size = Cardinality(Matched(m.matchRight))

\* C4: two findMaximumMatching calls on one engine with no mutation of the
\* adjacency lists in between return the same size.
C4_RepeatedCallSameSize ==
    \A i \in Calls, j \in Calls :
        (i < j /\ returned[i].op = "max" /\ returned[j].op = "max"
            /\ returned[i].edges = returned[j].edges)
        => returned[i].matching.size = returned[j].matching.size

\* C5: every findPerfectMatching call, also one made after an earlier
\* call on the same engine, returns non-null exactly when the maximum
\* matching cardinality of the graph equals leftSize and rightSize.
C5_PerfectIffExists ==
    \A i \in Calls :
        returned[i].op = "perfect" =>
            (~returned[i].isNull <=>
                (MaxCard(GraphAt(i)) = graph.leftSize
                    /\ MaxCard(GraphAt(i)) = graph.rightSize))

\* C6: when a findMaximumMatching call returns (first or repeated, with or
\* without earlier pushes), the graph's in-range entries hold no augmenting
\* path relative to the returned matchLeft / matchRight.
C6_NoAugmentingPathLeft ==
    \A i \in Calls :
        ~HasAugmentingPath(GraphAt(i), returned[i].matching.matchLeft,
                           returned[i].matching.matchRight)

\* a repeated call after a push in between that enlarged the matching
C6_Witness ==
    /\ Len(returned) = 2
    /\ returned[1].edges # returned[2].edges
    /\ returned[2].matching.size = 1
    /\ Cardinality(Matched(returned[2].matching.matchLeft)) = 2

\* C7: valid entries pushed after construction and before the first
\* findMaximumMatching call are seen by it: the returned size is the maximum
\* matching cardinality of the mutated graph.
C7_FirstCallReadsLiveLists ==
    (Len(returned) >= 1 /\ returned[1].op = "max"
        /\ returned[1].edges # BuiltGraph.edges /\ AllInRange(GraphAt(1)))
    => returned[1].matching.size = MaxCard(GraphAt(1))

\* the pushed edge raised the maximum above that of the graph as built
C7_Witness ==
    /\ Len(returned) >= 1 /\ returned[1].op = "max"
    /\ returned[1].edges # BuiltGraph.edges /\ AllInRange(GraphAt(1))
    /\ returned[1].matching.size > MaxCard(BuiltGraph)

\* C8: after valid edges are pushed once a call has returned, the next
\* findMaximumMatching call keeps the vertices matched so far matched and
\* returns matchLeft / matchRight that are a maximum-cardinality matching
\* of the mutated graph.
C8_ResumedCallIsMaximum ==
    \A i \in Calls :
        (i >= 2 /\ returned[i].op = "max"
            /\ returned[i].edges # returned[i - 1].edges /\ AllInRange(GraphAt(i)))
        => LET m == returned[i].matching
               M == {<<x, m.matchLeft[x]>> : x \in Matched(m.matchLeft)}
           IN  /\ M \subseteq EdgeSet(GraphAt(i))
               /\ IsMatchingSet(M)
               /\ Cardinality(M) = MaxCard(GraphAt(i))
               /\ \A v \in DOMAIN m.matchRight :
                     m.matchRight[v] # NIL <=> \E e \in M : e = <<m.matchRight[v], v>>
               /\ Matched(returned[i - 1].matching.matchLeft) \subseteq Matched(m.matchLeft)

\* the resumed call re-matched a left vertex to let the new edge in
C8_Witness ==
    \E i \in Calls :
        /\ i >= 2 /\ returned[i].op = "max"
        /\ returned[i].edges # returned[i - 1].edges /\ AllInRange(GraphAt(i))
        /\ MaxCard(GraphAt(i)) > MaxCard(GraphAt(i - 1))
        /\ \E x \in Matched(returned[i - 1].matching.matchLeft) :
              returned[i].matching.matchLeft[x] # returned[i - 1].matching.matchLeft[x]
\* C9: a fresh engine over the graph built from an edge list with repeated
\* pairs reports the same size as a fresh engine over the graph built from
\* the deduplicated list, and gives no right vertex to two left vertices.
C9_DuplicateEdgesInvariant ==
    (Len(returned) >= 1 /\ returned[1].op = "max"
        /\ returned[1].edges = BuiltGraph.edges
        /\ Dedup(input.edges) # input.edges)
    => LET m == returned[1].matching IN
       /\ m.size = FreshSize(DedupGraph)
       /\ \A x \in Matched(m.matchLeft), y \in Matched(m.matchLeft) :
             x # y => m.matchLeft[x] # m.matchLeft[y]

\* a repeated in-range pair survived into the adjacency list and two
\* pairs were matched
C9_Witness ==
    /\ Len(returned) >= 1 /\ returned[1].op = "max"
    /\ returned[1].edges = BuiltGraph.edges
    /\ BuiltGraph.edges # DedupGraph.edges
    /\ returned[1].matching.size = 2

\* C10: every size returned by findMaximumMatching is at most
\* min(leftSize, rightSize).
C10_SizeBound ==
    \A i \in Calls :
        /\ returned[i].matching.size <= graph.leftSize
        /\ returned[i].matching.size <= graph.rightSize

\* the bound is met on an unbalanced graph
C10_Witness ==
    \E i \in Calls :
        /\ graph.leftSize > graph.rightSize
        /\ graph.rightSize > 0
        /\ returned[i].matching.size = graph.rightSize
\* e lies inside [0, leftSize) x [0, rightSize)
PairInRange(e) ==
    /\ 0 <= e[1] /\ e[1] < input.leftSize
    /\ 0 <= e[2] /\ e[2] < input.rightSize

\* right indices of the in-range input pairs with left index x, in input order
ExpectedRow(x) ==
    LET kept == SelectSeq(input.edges, LAMBDA e : e[1] = x /\ PairInRange(e))
    IN  [k \in 1 .. Len(kept) |-> kept[k][2]]

InvalidAt == {i \in 1 .. Len(input.edges) : ~PairInRange(input.edges[i])}

\* C11: when createBipartiteGraph succeeds with non-negative sizes, edges has
\* exactly leftSize rows, and row u is the sequence of right indices of the
\* in-range input pairs (u, v) in input order, duplicates kept; every stored
\* value lies in [0, rightSize).
C11_AdjacencyFromInput ==
    (pc = "built" /\ input.leftSize >= 0 /\ input.rightSize >= 0)
    => /\ DOMAIN graph.edges = 0 .. (input.leftSize - 1)
       /\ \A x \in DOMAIN graph.edges :
            /\ graph.edges[x] = ExpectedRow(x)
            /\ \A k \in 1 .. Len(graph.edges[x]) :
                 graph.edges[x][k] \in 0 .. (input.rightSize - 1)

\* input order kept (1 before 0) in one row
C11_Witness ==
    /\ pc = "built"
    /\ input.leftSize = 2 /\ input.rightSize = 2
    /\ graph.edges[1] = <<1, 0>>

\* C12: with validateInput on, a negative leftSize or rightSize makes
\* createBipartiteGraph throw the partition-size error for any edge list and
\* any skipInvalidEdges, ahead of any invalid-edge error, and no graph is
\* returned.
C12_NegativeSizeThrowsFirst ==
    (pc # "args" /\ input.validateInput
        /\ (input.leftSize < 0 \/ input.rightSize < 0))
    => /\ pc = "thrown"
       /\ built.status = "InvalidPartitionSize"
       /\ graph = NoGraph

\* only rightSize is negative, and the list also holds an invalid pair that
\* would throw under skipInvalidEdges = false
C12_Witness ==
    /\ pc = "thrown"
    /\ input.validateInput /\ ~input.skipInvalidEdges
    /\ input.leftSize >= 0 /\ input.rightSize < 0
    /\ InvalidAt # {}
    /\ built.status = "InvalidPartitionSize"

\* C13: with validateInput on, skipInvalidEdges off and non-negative sizes,
\* createBipartiteGraph throws the invalid-edge error exactly when some
\* input pair is out of range; the error is about the first such pair in
\* input order and no graph is returned.
C13_InvalidEdgeThrows ==
    (pc # "args" /\ input.validateInput /\ ~input.skipInvalidEdges
        /\ input.leftSize >= 0 /\ input.rightSize >= 0)
    => /\ (built.status = "InvalidEdge") <=> (InvalidAt # {})
       /\ built.status \in {"InvalidEdge", "ok"}
       /\ built.status = "InvalidEdge" =>
            /\ pc = "thrown"
            /\ graph = NoGraph
            /\ built.at \in InvalidAt
            /\ \A i \in InvalidAt : built.at <= i

\* a valid pair comes first, the second pair is the one reported
C13_Witness ==
    /\ pc = "thrown"
    /\ built.status = "InvalidEdge"
    /\ built.at = 2
    /\ input.leftSize > 0

\* C14: with validateInput off, createBipartiteGraph never throws, whatever
\* the sizes, the edge list and skipInvalidEdges: out-of-range pairs are
\* dropped, skipInvalidEdges changes nothing, and negative sizes give an
\* adjacency structure without entries.
C14_UnvalidatedNeverThrows ==
    (pc # "args" /\ ~input.validateInput)
    => /\ pc = "built"
       /\ built.status = "ok"
       /\ built = createBipartiteGraph(input.leftSize, input.rightSize, input.edges,
                                       FALSE, ~input.skipInvalidEdges)
       /\ \A x \in DOMAIN graph.edges : graph.edges[x] = ExpectedRow(x)
       /\ input.leftSize < 0 => graph.edges = <<>>
       /\ input.rightSize < 0 => \A x \in DOMAIN graph.edges : graph.edges[x] = <<>>

\* negative size, an invalid pair and skipInvalidEdges = false, yet a graph
C14_Witness ==
    /\ pc = "built"
    /\ ~input.validateInput /\ ~input.skipInvalidEdges
    /\ input.leftSize < 0
    /\ Len(input.edges) > 0
\* C15: with entries outside [0, rightSize) in the adjacency lists,
\* findMaximumMatching is never stuck inside its loops (the for loop always
\* has a left vertex to work on), matches no such entry, and returns arrays
\* that are a maximum matching of the in-range entries.
C15_OutOfRangeEntriesSkipped ==
    /\ (pc = "for" /\ ~AllInRange(graph)) => u < graph.leftSize
    /\ \A i \in Calls :
         ~AllInRange(GraphAt(i)) =>
            LET m == returned[i].matching
                M == {<<x, m.matchLeft[x]>> : x \in Matched(m.matchLeft)}
            IN  /\ M \subseteq EdgeSet(GraphAt(i))
                /\ IsMatchingSet(M)
                /\ Cardinality(M) = MaxCard(GraphAt(i))
                /\ \A v \in DOMAIN m.matchRight :
                      m.matchRight[v] # NIL <=> <<m.matchRight[v], v>> \in M

\* a row whose out-of-range entry stands before the entry that got matched
C15_Witness ==
    \E i \in Calls : \E x \in DOMAIN returned[i].edges :
        LET row == returned[i].edges[x] IN
        \E k \in 1 .. Len(row), l \in 1 .. Len(row) :
            /\ k < l
            /\ row[k] \notin 0 .. (graph.rightSize - 1)
            /\ row[l] = returned[i].matching.matchLeft[x]
Min(a, b) == IF a <= b THEN a ELSE b

\* progress measure of a running call, ordered first by the free left
\* vertices and then by the position inside a phase
\* (while > for at u = 0 > ... > return)
Stage ==
    CASE pc = "while"  -> graph.leftSize + 2
      [] pc = "for"    -> graph.leftSize + 1 - u
      [] pc = "return" -> 1
      [] OTHER         -> 0

\* free left vertices when the current phase began (inside the for loop) or
\* now (elsewhere)
FreeAtPhaseStart ==
    IF pc = "for"
    THEN graph.leftSize - (before + phase.base)
    ELSE graph.leftSize - Cardinality(Matched(matchLeft))

Rank == FreeAtPhaseStart * (graph.leftSize + 3) + Stage

\* C16: every findMaximumMatching call terminates: an augmentation phase
\* that follows a successful layering matches at least one more left vertex,
\* the successful phases of a call number at most min(leftSize, rightSize),
\* and every step of a running call lowers a non-negative measure, so the
\* call reaches its return.
C16_CallTerminates ==
    /\ []((pc = "while" /\ phase.n > 0) => matchingSize > phase.base)
    /\ [](phase.n <= Min(graph.leftSize, graph.rightSize))
    /\ [](Rank >= 0)
    /\ [][pc # "idle" => Rank' < Rank]_vars

\* a call that needed two successful phases has returned
C16_Witness ==
    /\ pc = "idle"
    /\ Len(returned) >= 1
    /\ phase.n = 2
\* C17: within one findMaximumMatching call the sink distance dist[leftSize]
\* found by consecutive successful layering phases is strictly increasing.
C17_SinkDistanceIncreases ==
    (pc = "for" /\ phase.n >= 2)
    => /\ phase.sink = dist[graph.leftSize]
       /\ phase.sink # Infinity
       /\ phase.sink > phase.prevSink

\* a second successful layering found the sink one layer further away
C17_Witness ==
    /\ pc = "for"
    /\ phase.n = 2
    /\ phase.prevSink = 1
    /\ phase.sink = 2
MutuallyInverse(mL, mR) ==
    /\ \A x \in DOMAIN mL : mL[x] # NIL => mR[mL[x]] = x
    /\ \A v \in DOMAIN mR : mR[v] # NIL => mL[mR[v]] = v

\* C18: a top-level dfs(u) from a free left vertex u that fails leaves
\* matchLeft and matchRight as they were and changes distance entries only
\* to Infinity; one that succeeds raises the number of matched left vertices
\* by exactly one and leaves matchLeft and matchRight mutually inverse.
C18_AttemptFrame ==
    [][(pc = "for" /\ matchLeft[u] = NIL) =>
          IF matchingSize' = matchingSize
          THEN /\ matchLeft' = matchLeft
               /\ matchRight' = matchRight
               /\ \A x \in DOMAIN dist :
                     dist'[x] # dist[x] => dist'[x] = Infinity
               /\ dist'[u] = Infinity
          ELSE /\ matchingSize' = matchingSize + 1
               /\ matchLeft'[u] # NIL
               /\ Cardinality(Matched(matchLeft')) = Cardinality(Matched(matchLeft)) + 1
               /\ Cardinality(Matched(matchRight')) = Cardinality(Matched(matchRight)) + 1
               /\ MutuallyInverse(matchLeft', matchRight')]_vars

\* inside a call, one attempt has succeeded and another has failed and
\* pruned its free left vertex
C18_Witness ==
    /\ pc \in {"for", "while"}
    /\ phase.n >= 1
    /\ matchingSize >= 1
    /\ \E x \in DOMAIN matchLeft : matchLeft[x] = NIL /\ dist[x] = Infinity
\* C20: over the life of an engine (all phases, repeated calls, rows only
\* appended to) a left or right vertex that is matched is still matched
\* after every step; only its partner may change.
C20_MatchedStaysMatched ==
    [][/\ \A x \in DOMAIN matchLeft : matchLeft[x] # NIL => matchLeft'[x] # NIL
       /\ \A v \in DOMAIN matchRight : matchRight[v] # NIL => matchRight'[v] # NIL]_vars

\* a left vertex matched at the first return is matched to another right
\* vertex after an append and a second call
C20_Witness ==
    /\ Len(returned) = 2
    /\ nAppends >= 1
    /\ \E x \in DOMAIN matchLeft :
          /\ returned[1].matching.matchLeft[x] # NIL
          /\ matchLeft[x] # NIL
          /\ matchLeft[x] # returned[1].matching.matchLeft[x]
\* the state of an engine that ran k calls alone over g, and what its
\* k-th call returned
RECURSIVE AloneAfter(_, _)
AloneAfter(g, k) ==
    IF k = 0 THEN NewEngine(g) ELSE findMaximumMatching(g, AloneAfter(g, k - 1)).st

AloneReturn(g, k) == findMaximumMatching(g, AloneAfter(g, k - 1)).matching

\* C19: with two engines over one graph object whose layering and
\* augmentation steps interleave in any order (rows not mutated), the k-th
\* call of either engine returns the Matching an engine running alone
\* returns from its k-th call, and no step of either engine changes the
\* graph.
C19_EnginesIndependent ==
    /\ [](\A i \in 1 .. Len(returned) :
            returned[i].matching = AloneReturn(graph, i))
    /\ [](\A i \in 1 .. Len(hk2.returned) :
            hk2.returned[i].matching = AloneReturn(graph, i))
    /\ [][graph' = graph]_vars

\* the second engine made a call that began while the first engine was
\* inside its for loop; both have returned a matching of two pairs
C19_Witness ==
    /\ Len(returned) >= 1
    /\ Len(hk2.returned) >= 1
    /\ hk2.returned[1].during = "for"
    /\ hk2.returned[1].matching.size = 2
    /\ returned[1].matching.size = 2

====
